---------------------------- MODULE Spec2Model ----------------------------
(***************************************************************************)
(* Model of src/src/App.tsx: the App component's fetchResources scan, the  *)
(* React state it writes (depositLogs, withdrawLogs, withdrawFillerLogs,   *)
(* progress, isLoaded, isSettingsOpen) and the settings popup that starts  *)
(* further scans.                                                          *)
(*                                                                         *)
(* One step of the model is one run-to-completion piece of JavaScript: an  *)
(* event handler, or the code of fetchResources between two awaits.  The   *)
(* JSON-RPC node is the environment: a call in flight is first settled     *)
(* (resolved or rejected) and then the awaiting scan is resumed.           *)
(*                                                                         *)
(* Numbers.  Block numbers are bigints below 2^53, where Number() is       *)
(* exact; they are plain naturals here.  The uint256 event arguments are   *)
(* pairs <<hi, lo>> standing for hi * 2^30 + lo, so that values around     *)
(* 2^53, where Number() starts to round, can be written.  The progress     *)
(* value is the exact quotient (num / den) of the double computed at line  *)
(* 143; den = 0 stands for Infinity.                                       *)
(*                                                                         *)
(* The three text fields of the popup (citreaRpc, bitcoinApi,              *)
(* operatorKeys) and the rendering of the table are not part of the model: *)
(* whether a call succeeds is the environment's choice in every step.      *)
(***************************************************************************)
EXTENDS Naturals, Sequences, FiniteSets

\* ---- bounds of the model
MaxH == 2500
MaxLogs == 3
MaxScans == 2
MaxSaveLogs == 2

\* ---- program constants
BatchSize == 1000

VARIABLES
  chain,               \* the ledger: [head, logs], what the node answers from
  isSettingsOpen,      \* useState, line 46
  progress,            \* useState, line 52
  depositLogs,         \* useState, line 53
  withdrawLogs,        \* useState, line 54
  withdrawFillerLogs,  \* useState, line 55
  isLoaded,            \* useState, line 58
  started,             \* number of fetchResources calls made so far
  pc,                  \* per scan: where fetchResources is suspended
  blockNumber,         \* per scan: const blockNumber, line 91
  fromBlock,           \* per scan: let fromBlock, line 94
  toBlock,             \* per scan: let toBlock, line 97
  inflight,            \* JSON-RPC calls issued and not yet consumed
  queries,             \* per scan: the getLogs windows issued, in order
  outcomes             \* per scan: what each finished window did

vars == <<chain, isSettingsOpen, progress, depositLogs, withdrawLogs,
          withdrawFillerLogs, isLoaded, started, pc, blockNumber, fromBlock,
          toBlock, inflight, queries, outcomes>>

Scans == 1..MaxScans

\* ---------------------------------------------------------------- numbers

Big(hi, lo) == <<hi, lo>>
Small(n) == <<0, n>>

RECURSIVE BitLen(_)
BitLen(n) == IF n = 0 THEN 0 ELSE 1 + BitLen(n \div 2)

RECURSIVE Pow2(_)
Pow2(e) == IF e = 0 THEN 1 ELSE 2 * Pow2(e - 1)

\* A bigint is <<hi, lo>> with lo < Limb; it has more than the 53 bits of
\* a double's significand from hi = Exact on.
Limb == Pow2(30)
Exact == Pow2(23)

\* Number(v) of a bigint v < 2^60: the nearest double, ties to even.
ToNumberRound(v) ==
  LET hi == v[1]
      lo == v[2]
      step == Pow2(BitLen(hi) - 23)
      rem == lo % step
      base == lo - rem
      up == \/ 2 * rem > step
            \/ 2 * rem = step /\ (lo \div step) % 2 = 1
      lo2 == IF up THEN base + step ELSE base
  IN IF lo2 = Limb THEN <<hi + 1, 0>> ELSE <<hi, lo2>>

ToNumber(v) == IF v[1] < Exact THEN v ELSE ToNumberRound(v)

\* (Number(fromBlock) / Number(blockNumber)) * 100
Percent(from, H) == [num |-> from * 100, den |-> H]

RatLeq(a, b) ==
  IF b.den = 0 THEN TRUE
  ELSE IF a.den = 0 THEN FALSE
  ELSE a.num * b.den <= b.num * a.den

\* ---------------------------------------------------------------- the ledger

EventNames == {"Deposit", "Withdrawal", "WithdrawFillerDeclared"}

WithdrawIds == {Small(0), Big(Exact, 0), Big(Exact, 1)}

Count(seq, n, name) ==
  Cardinality({j \in 1..n : seq[j].eventName = name})

\* The log at position i of a ledger whose entries have the given kinds,
\* blocks and (for a filler declaration) withdraw ids.
MkLog(shape, i) ==
  [eventName |-> shape[i].eventName,
   blockNumber |-> shape[i].blockNumber,
   args |-> IF shape[i].eventName = "Deposit"
              THEN [depositId |-> Small(Count(shape, i - 1, "Deposit"))]
            ELSE IF shape[i].eventName = "Withdrawal"
              THEN [index |-> Small(Count(shape, i - 1, "Withdrawal"))]
            ELSE [withdrawId |-> shape[i].withdrawId,
                  withdrawFillerId |-> Small(i)]]

Templates(blocks, names, ids) ==
  {[eventName |-> n, blockNumber |-> b, withdrawId |-> Small(0)] :
      n \in names \ {"WithdrawFillerDeclared"}, b \in blocks}
  \cup
  {[eventName |-> n, blockNumber |-> b, withdrawId |-> w] :
      n \in names \cap {"WithdrawFillerDeclared"}, b \in blocks, w \in ids}

Shapes(blocks, names, ids, n) ==
  {s \in UNION {[1..k -> Templates(blocks, names, ids)] : k \in 0..n} :
      \A i \in 1..Len(s) - 1 : s[i].blockNumber <= s[i + 1].blockNumber}

Ledgers(blocks, names, ids, n) ==
  {[i \in 1..Len(s) |-> MkLog(s, i)] : s \in Shapes(blocks, names, ids, n)}

\* eth_getLogs over [from, to]: the entries of the range, in ledger order.
GetLogs(from, to) ==
  SelectSeq(chain.logs, LAMBDA l : from <= l.blockNumber /\ l.blockNumber <= to)

\* ---------------------------------------------------------------- the sinks

\* AppendLog with the spread on the wrong side: [log.args, ...prevLogs].
PrependLog(prevLogs, args) == <<args>> \o prevLogs

AppendLog(prevLogs, args) == Append(prevLogs, args)

Upsert(prevLogs, key, val) ==
  [k \in DOMAIN prevLogs \cup {key} |-> IF k = key THEN val ELSE prevLogs[k]]

SetFiller(prevLogs, args) ==
  Upsert(prevLogs, ToNumber(args.withdrawId), ToNumber(args.withdrawFillerId))

\* Dispatch with the Withdrawal branch writing to the deposit list.
DispatchMisrouted(st, log) ==
  IF log.eventName = "Deposit" \/ log.eventName = "Withdrawal"
    THEN [st EXCEPT !.d = AppendLog(st.d, log.args)]
  ELSE IF log.eventName = "WithdrawFillerDeclared"
    THEN [st EXCEPT !.f = SetFiller(st.f, log.args)]
  ELSE st

\* The body of logs.forEach for one log, on the three sinks.
Dispatch(st, log) ==
  IF log.eventName = "Deposit"
    THEN [st EXCEPT !.d = AppendLog(st.d, log.args)]
  ELSE IF log.eventName = "Withdrawal"
    THEN [st EXCEPT !.w = AppendLog(st.w, log.args)]
  ELSE IF log.eventName = "WithdrawFillerDeclared"
    THEN [st EXCEPT !.f = SetFiller(st.f, log.args)]
  ELSE st

RECURSIVE ForEach(_, _)
ForEach(st, logs) ==
  IF logs = <<>> THEN st
  ELSE ForEach(Dispatch(st, Head(logs)), Tail(logs))

Sinks == [d |-> depositLogs, w |-> withdrawLogs, f |-> withdrawFillerLogs]

\* ---------------------------------------------------------------- windows

\* ToBlock without the clamp of lines 100-102.
ToBlockUnclamped(from, H) == from + BatchSize - 1

ToBlock(from, H) ==
  IF from + BatchSize - 1 > H THEN H ELSE from + BatchSize - 1

\* NextFrom without the + BigInt(1) of line 141.
NextFromSame(to) == to

NextFrom(to) == to + 1

LoopCond(from, H) == from <= H

Call(s, method, from, to) ==
  [scan |-> s, method |-> method, fromBlock |-> from, toBlock |-> to,
   status |-> "pending"]

Awaited(s, method, status) ==
  {c \in inflight : c.scan = s /\ c.method = method /\ c.status = status}

Consume(calls, c) == calls \ {c}

\* The while test at line 96 with cursor `from`: either the next window's
\* query is issued and the scan suspends on it, or the loop is left and
\* setIsLoaded(true) runs.
LoopHead(s, c, from, H) ==
  IF LoopCond(from, H)
    THEN /\ toBlock' = [toBlock EXCEPT ![s] = ToBlock(from, H)]
         /\ inflight' = Consume(inflight, c)
                          \cup {Call(s, "getLogs", from, ToBlock(from, H))}
         /\ queries' = [queries EXCEPT
                          ![s] = Append(@, <<from, ToBlock(from, H)>>)]
         /\ pc' = [pc EXCEPT ![s] = "getLogs"]
         /\ UNCHANGED isLoaded
    ELSE /\ inflight' = Consume(inflight, c)
         /\ pc' = [pc EXCEPT ![s] = "completed"]
         /\ isLoaded' = TRUE
         /\ UNCHANGED <<toBlock, queries>>

\* ---------------------------------------------------------------- actions

\* FetchResources with the three collections cleared before the scan.
FetchResourcesClearing(s) ==
  /\ pc[s] = "idle"
  /\ isLoaded' = FALSE
  /\ depositLogs' = <<>>
  /\ withdrawLogs' = <<>>
  /\ withdrawFillerLogs' = <<>>
  /\ pc' = [pc EXCEPT ![s] = "getBlockNumber"]
  /\ inflight' = inflight \cup {Call(s, "getBlockNumber", 0, 0)}
  /\ started' = started + 1
  /\ UNCHANGED <<chain, progress, blockNumber, fromBlock, toBlock,
                 queries, outcomes>>

\* fetchResources up to its first await (lines 62-91).
FetchResources(s) ==
  /\ pc[s] = "idle"
  /\ isLoaded' = FALSE
  /\ pc' = [pc EXCEPT ![s] = "getBlockNumber"]
  /\ inflight' = inflight \cup {Call(s, "getBlockNumber", 0, 0)}
  /\ started' = started + 1
  /\ UNCHANGED <<chain, progress, depositLogs, withdrawLogs,
                 withdrawFillerLogs, blockNumber, fromBlock, toBlock,
                 queries, outcomes>>

\* useEffect(() => { fetchResources(); }, [])
Mount ==
  /\ started = 0
  /\ FetchResources(1)
  /\ UNCHANGED isSettingsOpen

OpenSettings ==
  /\ started > 0
  /\ ~isSettingsOpen
  /\ isSettingsOpen' = TRUE
  /\ UNCHANGED <<chain, progress, depositLogs, withdrawLogs,
                 withdrawFillerLogs, isLoaded, started, pc, blockNumber,
                 fromBlock, toBlock, inflight, queries, outcomes>>

CancelSettings ==
  /\ isSettingsOpen
  /\ isSettingsOpen' = FALSE
  /\ UNCHANGED <<chain, progress, depositLogs, withdrawLogs,
                 withdrawFillerLogs, isLoaded, started, pc, blockNumber,
                 fromBlock, toBlock, inflight, queries, outcomes>>

\* SaveGuard with the Save button refusing while a scan is running.
SaveGuardExclusive ==
  /\ isSettingsOpen
  /\ started < MaxScans
  /\ \A s \in Scans : pc[s] \notin {"getBlockNumber", "getLogs"}

\* The Save button is rendered while the popup is open (lines 279, 322).
SaveGuard == isSettingsOpen /\ started < MaxScans

SaveSettings ==
  /\ SaveGuard
  /\ isSettingsOpen' = FALSE
  /\ FetchResources(started + 1)

\* The node answers a call in flight, or the call fails.
Resolve(c) ==
  /\ c.status = "pending"
  /\ inflight' = (inflight \ {c}) \cup {[c EXCEPT !.status = "ok"]}
  /\ UNCHANGED <<chain, isSettingsOpen, progress, depositLogs, withdrawLogs,
                 withdrawFillerLogs, isLoaded, started, pc, blockNumber,
                 fromBlock, toBlock, queries, outcomes>>

Reject(c) ==
  /\ c.status = "pending"
  /\ inflight' = (inflight \ {c}) \cup {[c EXCEPT !.status = "err"]}
  /\ UNCHANGED <<chain, isSettingsOpen, progress, depositLogs, withdrawLogs,
                 withdrawFillerLogs, isLoaded, started, pc, blockNumber,
                 fromBlock, toBlock, queries, outcomes>>

\* getBlockNumber resolved: lines 91-96 and the first getLogs call.
BlockNumberOk(s) ==
  /\ pc[s] = "getBlockNumber"
  /\ \E c \in Awaited(s, "getBlockNumber", "ok") :
       /\ blockNumber' = [blockNumber EXCEPT ![s] = chain.head]
       /\ fromBlock' = [fromBlock EXCEPT ![s] = 0]
       /\ LoopHead(s, c, 0, chain.head)
  /\ UNCHANGED <<chain, isSettingsOpen, progress, depositLogs, withdrawLogs,
                 withdrawFillerLogs, started, outcomes>>

\* BlockNumberErr with the outer catch also resetting the progress bar.
BlockNumberErrReset(s) ==
  /\ pc[s] = "getBlockNumber"
  /\ \E c \in Awaited(s, "getBlockNumber", "err") :
       inflight' = Consume(inflight, c)
  /\ isLoaded' = FALSE
  /\ progress' = [num |-> 0, den |-> 1]
  /\ pc' = [pc EXCEPT ![s] = "failed"]
  /\ UNCHANGED <<chain, isSettingsOpen, depositLogs, withdrawLogs,
                 withdrawFillerLogs, started, blockNumber, fromBlock, toBlock,
                 queries, outcomes>>

\* getBlockNumber rejected: the outer catch, lines 146-149.
BlockNumberErr(s) ==
  /\ pc[s] = "getBlockNumber"
  /\ \E c \in Awaited(s, "getBlockNumber", "err") :
       inflight' = Consume(inflight, c)
  /\ isLoaded' = FALSE
  /\ pc' = [pc EXCEPT ![s] = "failed"]
  /\ UNCHANGED <<chain, isSettingsOpen, progress, depositLogs, withdrawLogs,
                 withdrawFillerLogs, started, blockNumber, fromBlock, toBlock,
                 queries, outcomes>>

\* The end of a loop iteration, lines 140-144, and the next while test.
Advance(s, c, ok) ==
  /\ fromBlock' = [fromBlock EXCEPT ![s] = NextFrom(toBlock[s])]
  /\ progress' = Percent(NextFrom(toBlock[s]), blockNumber[s])
  /\ outcomes' = [outcomes EXCEPT ![s] = Append(@,
                    [ok |-> ok,
                     progress |-> Percent(NextFrom(toBlock[s]), blockNumber[s])])]
  /\ LoopHead(s, c, NextFrom(toBlock[s]), blockNumber[s])

\* getLogs resolved: lines 116-132, then lines 140-144.
LogsOk(s) ==
  /\ pc[s] = "getLogs"
  /\ \E c \in Awaited(s, "getLogs", "ok") :
       LET logs == GetLogs(c.fromBlock, c.toBlock)
           st == ForEach(Sinks, logs)
       IN /\ depositLogs' = st.d
          /\ withdrawLogs' = st.w
          /\ withdrawFillerLogs' = st.f
          /\ Advance(s, c, TRUE)
  /\ UNCHANGED <<chain, isSettingsOpen, started, blockNumber>>

\* LogsErr without the inner try/catch: the rejection reaches the outer catch.
LogsErrRethrown(s) ==
  /\ pc[s] = "getLogs"
  /\ \E c \in Awaited(s, "getLogs", "err") :
       inflight' = Consume(inflight, c)
  /\ isLoaded' = FALSE
  /\ pc' = [pc EXCEPT ![s] = "failed"]
  /\ UNCHANGED <<chain, isSettingsOpen, progress, depositLogs, withdrawLogs,
                 withdrawFillerLogs, started, blockNumber, fromBlock, toBlock,
                 queries, outcomes>>

\* getLogs rejected: the inner catch, lines 133-138, then lines 140-144.
LogsErr(s) ==
  /\ pc[s] = "getLogs"
  /\ \E c \in Awaited(s, "getLogs", "err") :
       Advance(s, c, FALSE)
  /\ UNCHANGED <<chain, isSettingsOpen, depositLogs, withdrawLogs,
                 withdrawFillerLogs, started, blockNumber>>

\* ---------------------------------------------------------------- specifications

InitApp(H, logs) ==
  /\ chain = [head |-> H, logs |-> logs]
  /\ isSettingsOpen = FALSE
  /\ progress = [num |-> 0, den |-> 1]
  /\ depositLogs = <<>>
  /\ withdrawLogs = <<>>
  /\ withdrawFillerLogs = <<>>
  /\ isLoaded = FALSE
  /\ started = 0
  /\ pc = [s \in Scans |-> "idle"]
  /\ blockNumber = [s \in Scans |-> 0]
  /\ fromBlock = [s \in Scans |-> 0]
  /\ toBlock = [s \in Scans |-> 0]
  /\ inflight = {}
  /\ queries = [s \in Scans |-> <<>>]
  /\ outcomes = [s \in Scans |-> <<>>]

Heights ==
  {h \in 0..MaxH : h % BatchSize \in {0, 1, BatchSize - 1}} \cup {MaxH}

\* The page with its settings popup, on a chain of one or two windows, over
\* ledgers of deposits and withdrawals at the first and the last block.
Init ==
  \E H \in {0, BatchSize} :
    \E logs \in Ledgers({0, H}, {"Deposit", "Withdrawal"}, {}, MaxSaveLogs) :
      InitApp(H, logs)

Network == \E c \in inflight : Resolve(c) \/ Reject(c)

Resume ==
  \E s \in Scans :
    BlockNumberOk(s) \/ BlockNumberErr(s) \/ LogsOk(s) \/ LogsErr(s)

Next ==
  \/ Mount
  \/ OpenSettings
  \/ CancelSettings
  \/ SaveSettings
  \/ Network
  \/ Resume

Spec == Init /\ [][Next]_vars

\* The scan of the page load alone, over every kind of ledger.
InitScan ==
  \E H \in Heights :
    \E logs \in Ledgers({0, H}, EventNames, WithdrawIds, MaxLogs) :
      InitApp(H, logs)

NextScan ==
  \/ Mount
  \/ Network
  \/ Resume

SpecScan == InitScan /\ [][NextScan]_vars

\* The scan of the page load over every chain height, on an empty ledger.
InitHeights == \E H \in 0..MaxH : InitApp(H, <<>>)

SpecHeights == InitHeights /\ [][NextScan]_vars

\* The same, with every call in flight eventually settled by the node and
\* every scan whose call has settled eventually resumed by the event loop.
FairHeights ==
  /\ InitHeights
  /\ [][NextScan]_vars
  /\ \A s \in Scans :
       /\ WF_vars(\E c \in {x \in inflight : x.scan = s} :
                    Resolve(c) \/ Reject(c))
       /\ WF_vars(BlockNumberOk(s) \/ BlockNumberErr(s)
                    \/ LogsOk(s) \/ LogsErr(s))

\* ---------------------------------------------------------------- properties

ArgsOf(logs, name) ==
  LET sel == SelectSeq(logs, LAMBDA l : l.eventName = name)
  IN [i \in 1..Len(sel) |-> sel[i].args]

CallsOf(s) == {c \in inflight : c.scan = s}

\* The step consumes the settled call c: the scan awaiting it is resumed.
Consumed(c, method, status) ==
  /\ c.method = method
  /\ c.status = status
  /\ c \notin inflight'

Running(s) == pc[s] \in {"getBlockNumber", "getLogs"}

\* C1: the getLogs windows of one scan start at block 0, are non-empty and
\* at most BatchSize blocks wide, follow one another without gap or overlap,
\* and the last window of a completed scan ends at the chain height read at
\* its start; for a height of 2500 they are [0,999], [1000,1999], [2000,2500].
C1_Windows ==
  \A s \in Scans :
    LET q == queries[s]
    IN /\ Len(q) > 0 => q[1][1] = 0
       /\ \A i \in 1..Len(q) :
            q[i][1] <= q[i][2] /\ q[i][2] - q[i][1] + 1 <= BatchSize
       /\ \A i \in 1..Len(q) - 1 : q[i][2] + 1 = q[i + 1][1]
       /\ pc[s] = "completed" =>
            Len(q) > 0 /\ q[Len(q)][2] = blockNumber[s]
       /\ pc[s] = "completed" /\ blockNumber[s] = 2500 =>
            q = <<(<<0, 999>>), (<<1000, 1999>>), (<<2000, 2500>>)>>

C1_Witness ==
  /\ pc[1] = "completed"
  /\ blockNumber[1] = 2500
  /\ Len(queries[1]) = 3

\* C2: a step that processes a successful getLogs response appends to the
\* deposit list exactly the Deposit entries of the response and to the
\* withdrawal list exactly its Withdrawal entries, each in the order
\* returned, puts the withdraw id of every WithdrawFillerDeclared entry in
\* the filler mapping, and so routes each entry to exactly one sink.
C2_Routed ==
  [][\A c \in inflight :
       Consumed(c, "getLogs", "ok") =>
         LET resp == GetLogs(c.fromBlock, c.toBlock)
             nd == Cardinality({i \in DOMAIN resp : resp[i].eventName = "Deposit"})
             nw == Cardinality({i \in DOMAIN resp : resp[i].eventName = "Withdrawal"})
             fs == {i \in DOMAIN resp : resp[i].eventName = "WithdrawFillerDeclared"}
         IN /\ depositLogs' = depositLogs \o ArgsOf(resp, "Deposit")
            /\ withdrawLogs' = withdrawLogs \o ArgsOf(resp, "Withdrawal")
            /\ Len(depositLogs') = Len(depositLogs) + nd
            /\ Len(withdrawLogs') = Len(withdrawLogs) + nw
            /\ nd + nw + Cardinality(fs) = Len(resp)
            /\ DOMAIN withdrawFillerLogs' =
                 DOMAIN withdrawFillerLogs
                   \cup {ToNumber(resp[i].args.withdrawId) : i \in fs}
    ]_vars

C2_Witness ==
  /\ Len(outcomes[1]) = 1
  /\ outcomes[1][1].ok
  /\ Len(depositLogs) = 1
  /\ Len(withdrawLogs) = 1
  /\ DOMAIN withdrawFillerLogs # {}

\* The entries of the ledger that lie in a window of scan s that succeeded.
Delivered(s) ==
  SelectSeq(chain.logs, LAMBDA l :
    \E i \in 1..Len(outcomes[s]) :
      /\ outcomes[s][i].ok
      /\ queries[s][i][1] <= l.blockNumber
      /\ l.blockNumber <= queries[s][i][2])

\* C3: a step that handles a rejected getLogs call writes to none of the
\* three sinks, moves the cursor to one past the failed window, and either
\* queries the window starting there or completes the scan; it never fails
\* the scan.  The completed scan of the page load has set isLoaded and holds
\* exactly the entries of the windows that succeeded.
C3_WindowFailure ==
  [][/\ \A c \in inflight :
         Consumed(c, "getLogs", "err") =>
           /\ depositLogs' = depositLogs
           /\ withdrawLogs' = withdrawLogs
           /\ withdrawFillerLogs' = withdrawFillerLogs
           /\ fromBlock'[c.scan] = c.toBlock + 1
           /\ pc'[c.scan] \in {"getLogs", "completed"}
           /\ pc'[c.scan] = "getLogs" =>
                \E n \in inflight' :
                  /\ n.scan = c.scan
                  /\ n.status = "pending"
                  /\ n.fromBlock = c.toBlock + 1
           /\ pc'[c.scan] = "completed" => isLoaded'
     /\ pc'[1] = "completed" =>
          /\ isLoaded'
          /\ depositLogs' = ArgsOf(Delivered(1), "Deposit")'
          /\ withdrawLogs' = ArgsOf(Delivered(1), "Withdrawal")'
    ]_vars

C3_Witness ==
  /\ pc[1] = "completed"
  /\ depositLogs # <<>>
  /\ \E i \in 1..Len(outcomes[1]) :
       /\ ~outcomes[1][i].ok
       /\ GetLogs(queries[1][i][1], queries[1][i][2]) # <<>>

\* C4: a step that handles a rejected getBlockNumber call fails the scan,
\* clears isLoaded and leaves the three sinks and the progress value as they
\* were, as does the step that started the scan; a failed scan has issued no
\* getLogs query, has emitted no progress and has no call in flight.
C4_HeightFailure ==
  [][/\ \A c \in inflight :
         Consumed(c, "getBlockNumber", "err") =>
           /\ pc'[c.scan] = "failed"
           /\ ~isLoaded'
           /\ depositLogs' = depositLogs
           /\ withdrawLogs' = withdrawLogs
           /\ withdrawFillerLogs' = withdrawFillerLogs
           /\ progress' = progress
     /\ started' # started =>
           /\ depositLogs' = depositLogs
           /\ withdrawLogs' = withdrawLogs
           /\ withdrawFillerLogs' = withdrawFillerLogs
           /\ progress' = progress
     /\ \A s \in Scans :
          pc'[s] = "failed" =>
            /\ queries'[s] = <<>>
            /\ outcomes'[s] = <<>>
            /\ CallsOf(s)' = {}
    ]_vars

C4_Witness ==
  /\ pc[2] = "failed"
  /\ depositLogs # <<>>
  /\ progress.num > 0

\* C5: the progress values one scan emits never decrease, each lies in
\* [0, 100], and the one emitted after the last window is exactly 100.
C5_Progress ==
  \A s \in Scans :
    LET o == outcomes[s]
    IN /\ \A i \in 1..Len(o) - 1 : RatLeq(o[i].progress, o[i + 1].progress)
       /\ \A i \in 1..Len(o) :
            /\ o[i].progress.den # 0
            /\ o[i].progress.num <= 100 * o[i].progress.den
       /\ pc[s] = "completed" =>
            /\ Len(o) > 0
            /\ o[Len(o)].progress.num = 100 * o[Len(o)].progress.den
            /\ progress = o[Len(o)].progress

\* One loop iteration of a scan ends: its settled getLogs call is consumed.
C6_Step ==
  /\ \A c \in inflight :
       (c.method = "getLogs" /\ c.status # "pending" /\ c \notin inflight') =>
         /\ fromBlock'[c.scan] > fromBlock[c.scan]
         /\ pc'[c.scan] \in {"getLogs", "completed"}
         /\ pc'[c.scan] = "completed" <=>
              fromBlock'[c.scan] > blockNumber[c.scan]
         /\ pc'[c.scan] = "completed" => isLoaded'
  /\ \A c \in inflight :
       Consumed(c, "getBlockNumber", "ok") => pc'[c.scan] = "getLogs"

\* C6: once the chain height is known the scan reaches Completed whatever
\* windows fail, given that every query is settled: the cursor grows at
\* every iteration and the loop is left exactly when it exceeds the height.
C6_Terminates ==
  /\ [][C6_Step]_vars
  /\ \A s \in Scans : (pc[s] = "getLogs") ~> (pc[s] = "completed" /\ isLoaded)

C6_Witness ==
  /\ pc[1] = "completed"
  /\ isLoaded
  /\ \E i, j \in 1..Len(outcomes[1]) : outcomes[1][i].ok /\ ~outcomes[1][j].ok

IsPrefix(a, b) == Len(a) <= Len(b) /\ SubSeq(b, 1, Len(a)) = a

Occurrences(seq, x) == Cardinality({i \in DOMAIN seq : seq[i] = x})

FaultFree(s) ==
  /\ pc[s] = "completed"
  /\ \A i \in 1..Len(outcomes[s]) : outcomes[s][i].ok

TwoFaultFreeScans == started = 2 /\ FaultFree(1) /\ FaultFree(2)

Doubled ==
  /\ Len(depositLogs) = 2 * Len(ArgsOf(chain.logs, "Deposit"))
  /\ Len(withdrawLogs) = 2 * Len(ArgsOf(chain.logs, "Withdrawal"))
  /\ \A i \in DOMAIN chain.logs :
       /\ chain.logs[i].eventName = "Deposit" =>
            Occurrences(depositLogs, chain.logs[i].args) = 2
       /\ chain.logs[i].eventName = "Withdrawal" =>
            Occurrences(withdrawLogs, chain.logs[i].args) = 2

C7_Step ==
  /\ IsPrefix(depositLogs, depositLogs')
  /\ IsPrefix(withdrawLogs, withdrawLogs')
  /\ DOMAIN withdrawFillerLogs \subseteq DOMAIN withdrawFillerLogs'
  /\ TwoFaultFreeScans' => Doubled'

\* C7: no step, a settings save included, shrinks a sink: each list extends
\* its previous value; after two complete fault-free scans of the same
\* chain every deposit and every withdrawal is in its list twice.
C7_Accumulates == [][C7_Step]_vars

C7_Witness ==
  /\ TwoFaultFreeScans
  /\ depositLogs # <<>>
  /\ withdrawLogs # <<>>

FillerEntries ==
  {i \in DOMAIN chain.logs : chain.logs[i].eventName = "WithdrawFillerDeclared"}

LastDeclared(w) ==
  CHOOSE i \in FillerEntries :
    /\ chain.logs[i].args.withdrawId = w
    /\ \A j \in FillerEntries :
         chain.logs[j].args.withdrawId = w => j <= i

\* C8: after a fault-free scan the filler mapping has exactly one key per
\* distinct withdrawId declared, and at each withdrawId it holds the fillerId
\* of the last entry declaring it.
C8_FillerMapping ==
  FaultFree(1) =>
    LET ids == {chain.logs[i].args.withdrawId : i \in FillerEntries}
    IN /\ Cardinality(DOMAIN withdrawFillerLogs) = Cardinality(ids)
       /\ \A w \in ids :
            /\ w \in DOMAIN withdrawFillerLogs
            /\ withdrawFillerLogs[w] =
                 chain.logs[LastDeclared(w)].args.withdrawFillerId

BlockOf(name, args) ==
  chain.logs[CHOOSE i \in DOMAIN chain.logs :
               chain.logs[i].eventName = name /\ chain.logs[i].args = args
            ].blockNumber

ChainOrder(list, name) ==
  \A i, j \in DOMAIN list :
    i < j => BlockOf(name, list[i]) <= BlockOf(name, list[j])

\* C9: a scan has at most one call in flight, its windows ascend, and the
\* entries the scan of the page load has appended to the deposit list and
\* to the withdrawal list are in chain order, whatever windows failed.
C9_ChainOrder ==
  /\ \A s \in Scans :
       /\ Cardinality(CallsOf(s)) <= 1
       /\ \A i, j \in 1..Len(queries[s]) :
            i < j => queries[s][i][2] < queries[s][j][1]
  /\ ChainOrder(depositLogs, "Deposit")
  /\ ChainOrder(withdrawLogs, "Withdrawal")

C9_Witness ==
  /\ pc[1] = "completed"
  /\ \E i \in 1..Len(outcomes[1]) : ~outcomes[1][i].ok
  /\ Len(depositLogs) >= 2
  /\ BlockOf("Deposit", depositLogs[1]) < BlockOf("Deposit", depositLogs[2])
  /\ Len(withdrawLogs) >= 1

\* C10: while the settings popup is open Save can start a scan, whether or
\* not other scans are running.
C10_SaveNotBlocked ==
  (isSettingsOpen /\ started < MaxScans) => ENABLED SaveSettings

\* Two scans have overlapped: the deposit list is out of chain order, the
\* shared progress value is below one emitted before, and isLoaded is set
\* while a scan is running.
C10_Witness ==
  \E a, b \in Scans :
    /\ a # b
    /\ pc[a] = "completed"
    /\ Running(b)
    /\ isLoaded
    /\ ~ChainOrder(depositLogs, "Deposit")
    /\ \E i \in 1..Len(outcomes[a]) :
         ~RatLeq(outcomes[a][i].progress, progress)

=============================================================================
